---- MODULE Spec2Model ----
(***************************************************************************)
(* Model of codex-rs/core/src/tools/router.rs (ToolRouter: parallel policy, *)
(* build_tool_call, dispatch_tool_call, failure_response) and of            *)
(* codex-rs/core/src/tasks/compact.rs (CompactTask::run).                   *)
(*                                                                         *)
(* The specifications share the variables:                                 *)
(*   Spec          the call pipeline: each call slot normalises one        *)
(*                 response item (build_tool_call), hands the ToolCall to   *)
(*                 the registry (dispatch_tool_call up to its .await) and   *)
(*                 resumes with the registry's outcome;                     *)
(*   SpecParallel  the policy query tool_supports_parallel over every      *)
(*                 configured spec list up to MaxSpecs entries;             *)
(*   SpecConcurrent  up to MaxInFlight calls dispatched on one router at    *)
(*                 the same time, in every interleaving;                    *)
(*   SpecRouter    every operation of the router (specs, policy query,      *)
(*                 build, dispatch) in any order, on several spec lists;    *)
(*   SpecCompact   one CompactTask::run, step by step, with a cancellation *)
(*                 token the session may cancel at any point.               *)
(***************************************************************************)
EXTENDS Naturals, Sequences, FiniteSets

(* ------------------------------ bounds -------------------------------- *)

\* Number of call slots (dispatch_tool_call invocations that can be in flight).
MaxCalls == 1

\* Longest configured spec list (ToolRouter.specs) the policy is checked on.
MaxSpecs == 2

\* Number of dispatch_tool_call invocations in flight at once on one router.
MaxInFlight == 2

Calls == 1..MaxCalls

InFlight == 1..MaxInFlight

\* The call slots of the state: enough for either use.
Slots == Calls \cup InFlight

(* ------------------------- Option and Result -------------------------- *)

None == [some |-> FALSE]

Some(v) == [some |-> TRUE, val |-> v]

Ok(v) == [ok |-> TRUE, val |-> v]

Err(e) == [ok |-> FALSE, err |-> e]

(* ------------------------- FunctionCallError -------------------------- *)

Messages == {"boom", "denied"}

Fatal(m) == [kind |-> "Fatal", message |-> m]

MissingLocalShellCallId == [kind |-> "MissingLocalShellCallId"]

\* The spec's "another recoverable variant carrying a display-able message".
Recoverable(m) == [kind |-> "Recoverable", message |-> m]

FunctionCallErrors ==
    {Fatal(m) : m \in Messages} \cup {MissingLocalShellCallId}
        \cup {Recoverable(m) : m \in Messages}

\* err.to_string(): the Display text of a FunctionCallError.
to_string(err) ==
    CASE err.kind = "Recoverable" -> err.message
      [] err.kind = "MissingLocalShellCallId" -> "LocalShellCall without call_id or id"
      [] err.kind = "Fatal" -> IF err.message = "boom" THEN "Fatal error: boom"
                                                       ELSE "Fatal error: denied"

(* ------------------------------ values -------------------------------- *)

CallIds == {"call_1", "call_2"}

ArgumentStrings == {"{}", "{\"cmd\":[\"ls\"]}"}

SHELL_TOOL_ALIASES ==
    {"shell", "container.exec", "local_shell", "shell_command", "exec_command"}

\* Names that are not shell aliases.
OtherToolNames == {"apply_patch", "view_image"}

ToolNames == SHELL_TOOL_ALIASES \cup OtherToolNames

\* The session's MCP tools: fully qualified name -> (server, tool).
McpQualifiedNames == {"mcp__srv__echo"}

FunctionCallNames == {"shell"} \cup McpQualifiedNames

\* Session::parse_mcp_tool_name: Some((server, tool)) for a known MCP tool.
parse_mcp_tool_name(name) ==
    IF name \in McpQualifiedNames
    THEN Some([server |-> "srv", tool |-> "echo"])
    ELSE None

LocalShellActions ==
    { [type |-> "Exec", command |-> <<"ls">>,
       working_directory |-> None, timeout_ms |-> None],
      [type |-> "Exec", command |-> <<"pwd">>,
       working_directory |-> Some("/tmp"), timeout_ms |-> Some(1000)] }

OptCallIds == {None} \cup {Some(i) : i \in CallIds}

\* ResponseItem: the three tool-call kinds and two kinds that are no tool call.
ResponseItems ==
    { [type |-> "FunctionCall", name |-> n, arguments |-> a, call_id |-> i] :
        n \in FunctionCallNames, a \in ArgumentStrings, i \in CallIds }
    \cup
    { [type |-> "CustomToolCall", name |-> "apply_patch", input |-> a, call_id |-> i] :
        a \in ArgumentStrings, i \in CallIds }
    \cup
    { [type |-> "LocalShellCall", id |-> d, call_id |-> i, action |-> x] :
        d \in OptCallIds, i \in OptCallIds, x \in LocalShellActions }
    \cup
    { [type |-> "Message"], [type |-> "Reasoning"] }

\* One item per id for two payload shapes: the items of the specifications
\* that run several calls or several operations together.
SampleItems ==
    { it \in ResponseItems :
        \/ it.type = "FunctionCall" /\ it.name = "shell" /\ it.arguments = "{}"
        \/ it.type = "CustomToolCall" /\ it.input = "{}" }

\* ResponseInputItem values the registry may answer with.
RegistryResponses ==
    { [type |-> "FunctionCallOutput", call_id |-> "call_1",
       output |-> [body |-> [type |-> "Text", text |-> "ok"], success |-> Some(TRUE)]],
      [type |-> "CustomToolCallOutput", call_id |-> "call_2", output |-> "patched"] }

\* ToolRegistry::dispatch is opaque: any response or any error.
RegistryOutcomes ==
    {Ok(r) : r \in RegistryResponses} \cup {Err(e) : e \in FunctionCallErrors}

(* --------------------------- ToolRouter -------------------------------- *)

\* ConfiguredToolSpec { spec, supports_parallel_tool_calls }; spec.name() is spec.name.
ConfiguredToolSpecs ==
    { [spec |-> [name |-> n], supports_parallel_tool_calls |-> b] :
        n \in ToolNames, b \in BOOLEAN }

RECURSIVE SeqsUpTo(_, _)
SeqsUpTo(S, n) ==
    IF n = 0 THEN {<<>>}
    ELSE LET shorter == SeqsUpTo(S, n - 1)
         IN  shorter \cup {Append(q, x) : q \in {r \in shorter : Len(r) = n - 1}, x \in S}

\* Every spec list from_config can hand to the router, up to MaxSpecs entries.
SpecLists == SeqsUpTo(ConfiguredToolSpecs, MaxSpecs)

\* The list the call-pipeline specification runs with: shell is parallel-capable.
DefaultSpecs ==
    << [spec |-> [name |-> "shell"], supports_parallel_tool_calls |-> TRUE],
       [spec |-> [name |-> "apply_patch"], supports_parallel_tool_calls |-> FALSE] >>

\* ToolRouter::specs: the ToolSpec of every entry, in order.
specs_list(sp) == [i \in 1..Len(sp) |-> sp[i].spec]

\* The spec lists the whole-router specification is run on.
RouterConfigs ==
    { <<>>, DefaultSpecs,
      << [spec |-> [name |-> "container.exec"], supports_parallel_tool_calls |-> TRUE] >> }

configured_tool_supports_parallel(sp, tool_name) ==
    \E i \in 1..Len(sp) :
        sp[i].supports_parallel_tool_calls /\ sp[i].spec.name = tool_name

\* Mutant: the alias step is lost, only the name's own flag counts.
tool_supports_parallel_no_alias(sp, tool_name) ==
    configured_tool_supports_parallel(sp, tool_name)

\* Mutant: the alias answer is given without the membership test.
tool_supports_parallel_all_names(sp, tool_name) ==
    IF configured_tool_supports_parallel(sp, tool_name) THEN TRUE
    ELSE \E alias \in SHELL_TOOL_ALIASES : configured_tool_supports_parallel(sp, alias)

tool_supports_parallel(sp, tool_name) ==
    IF configured_tool_supports_parallel(sp, tool_name) THEN TRUE
    ELSE IF tool_name \in SHELL_TOOL_ALIASES
         THEN \E alias \in SHELL_TOOL_ALIASES : configured_tool_supports_parallel(sp, alias)
         ELSE FALSE

ToolCall(tool_name, call_id, payload) ==
    [tool_name |-> tool_name, call_id |-> call_id, payload |-> payload]

\* Mutant: a resolved MCP name still yields a Function payload.
function_call_never_mcp(item) ==
    Ok(Some(ToolCall(item.name, item.call_id,
                     [type |-> "Function", arguments |-> item.arguments])))

\* build_tool_call, the FunctionCall arm.
function_call(item) ==
    LET resolved == parse_mcp_tool_name(item.name)
    IN  IF resolved.some
        THEN Ok(Some(ToolCall(item.name, item.call_id,
                              [type |-> "Mcp", server |-> resolved.val.server,
                               tool |-> resolved.val.tool,
                               raw_arguments |-> item.arguments])))
        ELSE Ok(Some(ToolCall(item.name, item.call_id,
                              [type |-> "Function", arguments |-> item.arguments])))

\* build_tool_call, the CustomToolCall arm.
custom_tool_call(item) ==
    Ok(Some(ToolCall(item.name, item.call_id,
                     [type |-> "Custom", input |-> item.input])))

\* Mutant: the fallback id is preferred over the explicit call_id.
local_shell_call_id_prefers_id(call_id, id) ==
    IF id.some THEN Ok(id.val)
    ELSE IF call_id.some THEN Ok(call_id.val)
    ELSE Err(MissingLocalShellCallId)

\* call_id.or(id).ok_or(FunctionCallError::MissingLocalShellCallId)
local_shell_call_id(call_id, id) ==
    IF call_id.some THEN Ok(call_id.val)
    ELSE IF id.some THEN Ok(id.val)
    ELSE Err(MissingLocalShellCallId)

\* build_tool_call, the LocalShellCall arm.
local_shell_call(item) ==
    LET cid == local_shell_call_id(item.call_id, item.id)
    IN  IF ~cid.ok THEN Err(cid.err)
        ELSE Ok(Some(ToolCall("local_shell", cid.val,
                 [type |-> "LocalShell",
                  params |-> [command |-> item.action.command,
                              workdir |-> item.action.working_directory,
                              timeout_ms |-> item.action.timeout_ms,
                              sandbox_permissions |-> Some("UseDefault"),
                              prefix_rule |-> None,
                              justification |-> None]])))

\* Mutant: an item that is no tool call is reported as an error.
build_tool_call_other_is_error(item) ==
    CASE item.type = "FunctionCall" -> function_call(item)
      [] item.type = "CustomToolCall" -> custom_tool_call(item)
      [] item.type = "LocalShellCall" -> local_shell_call(item)
      [] OTHER -> Err(MissingLocalShellCallId)

build_tool_call(item) ==
    CASE item.type = "FunctionCall" -> function_call(item)
      [] item.type = "CustomToolCall" -> custom_tool_call(item)
      [] item.type = "LocalShellCall" -> local_shell_call(item)
      [] OTHER -> Ok(None)

\* The session lookups build_tool_call makes for the item.
mcp_lookups(item) ==
    IF item.type = "FunctionCall"
    THEN <<[name |-> item.name, result |-> parse_mcp_tool_name(item.name)]>>
    ELSE <<>>

\* Mutant: the failure item ignores the payload shape.
failure_response_always_function(call_id, payload_outputs_custom, err) ==
    [type |-> "FunctionCallOutput", call_id |-> call_id,
     output |-> [body |-> [type |-> "Text", text |-> to_string(err)],
                 success |-> Some(FALSE)]]

failure_response(call_id, payload_outputs_custom, err) ==
    IF payload_outputs_custom
    THEN [type |-> "CustomToolCallOutput", call_id |-> call_id,
          output |-> to_string(err)]
    ELSE [type |-> "FunctionCallOutput", call_id |-> call_id,
          output |-> [body |-> [type |-> "Text", text |-> to_string(err)],
                      success |-> Some(FALSE)]]

\* Mutant: the failure call id is taken from the wrong field of the call.
destructure_wrong_failure_id(call) ==
    [payload_outputs_custom |-> call.payload.type = "Custom",
     failure_call_id |-> call.tool_name,
     invocation |-> [call_id |-> call.call_id, tool_name |-> call.tool_name,
                     payload |-> call.payload]]

\* dispatch_tool_call up to the registry call: the locals kept across the .await
\* and the ToolInvocation handed to the registry.
destructure(call) ==
    [payload_outputs_custom |-> call.payload.type = "Custom",
     failure_call_id |-> call.call_id,
     invocation |-> [call_id |-> call.call_id, tool_name |-> call.tool_name,
                     payload |-> call.payload]]

\* Mutant: every registry error is propagated.
dispatch_match_propagates_all(outcome, failure_call_id, payload_outputs_custom) ==
    outcome

\* Mutant: a Fatal error is reported to the model like any other.
dispatch_match_fatal_recoverable(outcome, failure_call_id, payload_outputs_custom) ==
    IF outcome.ok THEN Ok(outcome.val)
    ELSE Ok(failure_response(failure_call_id, payload_outputs_custom, outcome.err))

\* Mutant: a missing call id reported by the registry is propagated too.
dispatch_match_missing_id_unwinds(outcome, failure_call_id, payload_outputs_custom) ==
    IF outcome.ok THEN Ok(outcome.val)
    ELSE IF outcome.err.kind \in {"Fatal", "MissingLocalShellCallId"}
         THEN Err(outcome.err)
         ELSE Ok(failure_response(failure_call_id, payload_outputs_custom, outcome.err))

\* Mutant: the response's call id is overwritten with the call's own.
dispatch_match_rewrites_ok(outcome, failure_call_id, payload_outputs_custom) ==
    IF outcome.ok THEN Ok([outcome.val EXCEPT !.call_id = failure_call_id])
    ELSE IF outcome.err.kind = "Fatal" THEN Err(Fatal(outcome.err.message))
         ELSE Ok(failure_response(failure_call_id, payload_outputs_custom, outcome.err))

\* dispatch_tool_call after the registry call: the match on its outcome.
dispatch_match(outcome, failure_call_id, payload_outputs_custom) ==
    IF outcome.ok THEN Ok(outcome.val)
    ELSE IF outcome.err.kind = "Fatal" THEN Err(Fatal(outcome.err.message))
         ELSE Ok(failure_response(failure_call_id, payload_outputs_custom, outcome.err))

(* --------------------------- CompactTask ------------------------------- *)

\* ctx.provider: all the task reads of it is whether remote compaction applies.
Providers ==
    { [name |-> "openai", remote_compact |-> TRUE],
      [name |-> "oss", remote_compact |-> FALSE] }

\* crate::compact::should_use_remote_compact_task(&ctx.provider)
should_use_remote_compact_task(provider) == provider.remote_compact

\* input: Vec<UserInput>
UserInputs == {<<>>, <<"compact">>, <<"compact", "now">>}

\* The errors a compaction strategy can fail with.
CompactErrors == {"ContextWindowExceeded", "Stream"}

\* What a strategy's future resolves to: Ok(()) or Err(err).
StrategyResults == {Ok("unit")} \cup {Err(e) : e \in CompactErrors}

\* What otel_manager.counter(..) returns; run discards it.
CounterResults == {"ok", "err"}

\* otel_manager.counter("codex.task.compact", 1, &[("type", ..)])
counter_emission(remote) ==
    [name |-> "codex.task.compact", inc |-> 1,
     type |-> IF remote THEN "remote" ELSE "local"]

\* Mutant: the remote strategy is handed the user input as well.
strategy_call_remote_gets_input(remote, input) ==
    IF remote
    THEN [strategy |-> "run_remote_compact_task", input |-> Some(input)]
    ELSE [strategy |-> "run_compact_task", input |-> Some(input)]

\* The strategy run calls and the user input it hands over.
strategy_call(remote, input) ==
    IF remote
    THEN [strategy |-> "run_remote_compact_task", input |-> None]
    ELSE [strategy |-> "run_compact_task", input |-> Some(input)]

\* Mutant: the local branch reports with the remote branch's message.
error_event_remote_message(remote, err) ==
    [type |-> "Error", message |-> "Error running remote compact task", error |-> err]

\* EventMsg::Error(err.to_error_event(Some(<message of the branch>)))
error_event(remote, err) ==
    [type |-> "Error",
     message |-> IF remote THEN "Error running remote compact task"
                           ELSE "Error running local compact task",
     error |-> err]

\* Mutant: a failed counter emission ends the run.
run_next_counter_aborts(at, ok) ==
    CASE at = "decide" -> "counter"
      [] at = "counter" -> IF ok THEN "start_strategy" ELSE "return"
      [] at = "start_strategy" -> "in_strategy"
      [] at = "in_strategy" -> IF ok THEN "return" ELSE "send_event"
      [] at = "send_event" -> "return"
      [] at = "return" -> "done"

\* Mutant: the counter is emitted once the strategy has succeeded.
run_next_counts_successes(at, ok) ==
    CASE at = "decide" -> "start_strategy"
      [] at = "start_strategy" -> "in_strategy"
      [] at = "in_strategy" -> IF ok THEN "counter" ELSE "send_event"
      [] at = "counter" -> "return"
      [] at = "send_event" -> "return"
      [] at = "return" -> "done"

\* Mutant: a strategy failure is dropped without an event.
run_next_drops_failure(at, ok) ==
    CASE at = "decide" -> "counter"
      [] at = "counter" -> "start_strategy"
      [] at = "start_strategy" -> "in_strategy"
      [] at = "in_strategy" -> "return"
      [] at = "send_event" -> "return"
      [] at = "return" -> "done"

\* The control flow of run: the program point after the step at `at`, whose
\* call returned success (ok) or failure.
run_next(at, ok) ==
    CASE at = "decide" -> "counter"
      [] at = "counter" -> "start_strategy"
      [] at = "start_strategy" -> "in_strategy"
      [] at = "in_strategy" -> IF ok THEN "return" ELSE "send_event"
      [] at = "send_event" -> "return"
      [] at = "return" -> "done"

(* ------------------------------ state --------------------------------- *)

VARIABLES
    specs,        \* ToolRouter.specs, fixed at construction
    query,        \* the last tool_supports_parallel query and its answer
    pc,           \* per call slot: idle, lookup, built, awaiting, done
    item,         \* the ResponseItem given to build_tool_call
    mcpLog,       \* the parse_mcp_tool_name lookups build_tool_call made
    built,        \* what build_tool_call returned
    frame,        \* dispatch_tool_call's locals held across the registry .await
    registryLog,  \* the invocations the registry received from this dispatch
    outcome,      \* what the registry returned
    ret,          \* what dispatch_tool_call returned
    overlap,      \* the other slots in flight when this slot's dispatch returned
    advertised,   \* what the last specs() call returned
    taskPc,       \* CompactTask::run's program point
    provider,     \* ctx.provider
    input,        \* the input run was given
    remote,       \* the branch run took, once decided
    counters,     \* the counter emissions made, each with what the call returned
    strategyCalls, \* the strategy invocations made
    strategyResult, \* what the strategy returned, once it has
    events,       \* the events sent on the session
    taskRet,      \* what run returned, once it has
    cancelAt,     \* the program point run was at when its token was cancelled
    trace         \* the steps run has taken, in order

taskVars == <<taskPc, provider, input, remote, counters, strategyCalls,
              strategyResult, events, taskRet, cancelAt, trace>>

routerVars == <<specs, query, pc, item, mcpLog, built, frame, registryLog, outcome, ret,
                overlap, advertised>>

vars == <<routerVars, taskVars>>

callVars == <<pc, item, mcpLog, built, frame, registryLog, outcome, ret, overlap>>

InitCalls ==
    /\ query = None
    /\ advertised = None
    /\ pc = [c \in Slots |-> "idle"]
    /\ item = [c \in Slots |-> None]
    /\ mcpLog = [c \in Slots |-> <<>>]
    /\ built = [c \in Slots |-> None]
    /\ frame = [c \in Slots |-> None]
    /\ registryLog = [c \in Slots |-> <<>>]
    /\ outcome = [c \in Slots |-> None]
    /\ ret = [c \in Slots |-> None]
    /\ overlap = [c \in Slots |-> {}]

\* A task with provider p and input i, as far as program point at.
InitTask(p, i, at) ==
    /\ taskPc = at
    /\ provider = p
    /\ input = i
    /\ remote = None
    /\ counters = <<>>
    /\ strategyCalls = <<>>
    /\ strategyResult = None
    /\ events = <<>>
    /\ taskRet = None
    /\ cancelAt = "never"
    /\ trace = <<>>

\* No compaction task has been spawned.
NoTask == InitTask([name |-> "openai", remote_compact |-> TRUE], <<>>, "unspawned")

\* ToolRouter::from_config, then no call yet.
Init ==
    /\ specs = DefaultSpecs
    /\ InitCalls
    /\ NoTask

InitParallel ==
    /\ specs \in SpecLists
    /\ InitCalls
    /\ NoTask

\* CompactTask::run has been called on some provider with some input.
InitCompact ==
    /\ specs = DefaultSpecs
    /\ InitCalls
    /\ \E p \in Providers, i \in UserInputs : InitTask(p, i, "decide")

(* ----------------------------- actions -------------------------------- *)

\* build_tool_call suspends on an item exactly when its arm awaits
\* session.parse_mcp_tool_name: the FunctionCall arm.
awaits_lookup(it) == it.type = "FunctionCall"

\* ToolRouter::build_tool_call(session, it) in slot c, as far as its first
\* suspension: a FunctionCall item is taken and the future is pending in
\* session.parse_mcp_tool_name(..).await; any other item is answered at once.
BuildToolCall(c, it) ==
    /\ pc[c] = "idle"
    /\ item' = [item EXCEPT ![c] = it]
    /\ IF awaits_lookup(it)
       THEN /\ pc' = [pc EXCEPT ![c] = "lookup"]
            /\ UNCHANGED <<mcpLog, built>>
       ELSE /\ mcpLog' = [mcpLog EXCEPT ![c] = mcp_lookups(it)]
            /\ built' = [built EXCEPT ![c] = build_tool_call(it)]
            /\ pc' = [pc EXCEPT ![c] = "built"]
    /\ UNCHANGED <<specs, query, advertised, frame, registryLog, outcome, ret, overlap>>
    /\ UNCHANGED taskVars

\* The session answers the lookup of slot c and build_tool_call returns.
BuildResume(c) ==
    /\ pc[c] = "lookup"
    /\ mcpLog' = [mcpLog EXCEPT ![c] = mcp_lookups(item[c])]
    /\ built' = [built EXCEPT ![c] = build_tool_call(item[c])]
    /\ pc' = [pc EXCEPT ![c] = "built"]
    /\ UNCHANGED <<specs, query, advertised, item, frame, registryLog, outcome, ret, overlap>>
    /\ UNCHANGED taskVars

\* dispatch_tool_call on the ToolCall built in slot c, up to registry.dispatch(..).await.
DispatchBegin(c) ==
    /\ pc[c] = "built"
    /\ built[c].ok
    /\ built[c].val.some
    /\ LET f == destructure(built[c].val.val)
       IN  /\ frame' = [frame EXCEPT ![c] = f]
           /\ registryLog' = [registryLog EXCEPT ![c] = Append(@, f.invocation)]
    /\ pc' = [pc EXCEPT ![c] = "awaiting"]
    /\ UNCHANGED <<specs, query, advertised, item, mcpLog, built, outcome, ret, overlap>>
    /\ UNCHANGED taskVars

\* The other slots whose dispatch is suspended in the registry.
OthersInFlight(c) == {d \in Slots \ {c} : pc[d] = "awaiting"}

\* Mutant: a recoverable error makes the dispatch call the registry once more.
DispatchResume_retries(c, out) ==
    /\ pc[c] = "awaiting"
    /\ outcome' = [outcome EXCEPT ![c] = out]
    /\ ret' = [ret EXCEPT ![c] =
                 dispatch_match(out, frame[c].failure_call_id,
                                frame[c].payload_outputs_custom)]
    /\ IF ~out.ok /\ out.err.kind # "Fatal" /\ Len(registryLog[c]) < 2
       THEN /\ registryLog' = [registryLog EXCEPT ![c] = Append(@, frame[c].invocation)]
            /\ pc' = pc
       ELSE /\ registryLog' = registryLog
            /\ pc' = [pc EXCEPT ![c] = "done"]
    /\ overlap' = [overlap EXCEPT ![c] = OthersInFlight(c)]
    /\ UNCHANGED <<specs, query, advertised, item, mcpLog, built, frame>>
    /\ UNCHANGED taskVars

\* Mutant: the locals of the dispatch are one slot of the router, shared by the
\* calls in flight: a resuming call reads those of the lowest slot in flight.
DispatchResume_shared_frame(c, out) ==
    /\ pc[c] = "awaiting"
    /\ outcome' = [outcome EXCEPT ![c] = out]
    /\ LET d == CHOOSE x \in OthersInFlight(c) \cup {c} :
                    \A y \in OthersInFlight(c) \cup {c} : x <= y
       IN  ret' = [ret EXCEPT ![c] =
                     dispatch_match(out, frame[d].failure_call_id,
                                    frame[d].payload_outputs_custom)]
    /\ pc' = [pc EXCEPT ![c] = "done"]
    /\ overlap' = [overlap EXCEPT ![c] = OthersInFlight(c)]
    /\ UNCHANGED <<specs, query, advertised, item, mcpLog, built, frame, registryLog>>
    /\ UNCHANGED taskVars

\* The registry answers slot c with out and dispatch_tool_call returns.
DispatchResume(c, out) ==
    /\ pc[c] = "awaiting"
    /\ outcome' = [outcome EXCEPT ![c] = out]
    /\ ret' = [ret EXCEPT ![c] =
                 dispatch_match(out, frame[c].failure_call_id,
                                frame[c].payload_outputs_custom)]
    /\ pc' = [pc EXCEPT ![c] = "done"]
    /\ overlap' = [overlap EXCEPT ![c] = OthersInFlight(c)]
    /\ UNCHANGED <<specs, query, advertised, item, mcpLog, built, frame, registryLog>>
    /\ UNCHANGED taskVars

\* Mutant: an alias answered through another alias is added to the spec list.
QueryParallel_memoises(name) ==
    /\ query' = Some([name |-> name, result |-> tool_supports_parallel(specs, name)])
    /\ specs' = IF tool_supports_parallel(specs, name)
                    /\ ~configured_tool_supports_parallel(specs, name)
                 THEN Append(specs, [spec |-> [name |-> name],
                                     supports_parallel_tool_calls |-> TRUE])
                 ELSE specs
    /\ UNCHANGED <<advertised, callVars>>
    /\ UNCHANGED taskVars

\* ToolRouter::tool_supports_parallel(name).
QueryParallel(name) ==
    /\ query' = Some([name |-> name, result |-> tool_supports_parallel(specs, name)])
    /\ UNCHANGED <<specs, advertised, callVars>>
    /\ UNCHANGED taskVars

\* ToolRouter::specs().
SpecsCall ==
    /\ advertised' = Some(specs_list(specs))
    /\ UNCHANGED <<specs, query, callVars>>
    /\ UNCHANGED taskVars

Next ==
    \/ \E c \in Calls, it \in ResponseItems : BuildToolCall(c, it)
    \/ \E c \in Calls : BuildResume(c)
    \/ \E c \in Calls : DispatchBegin(c)
    \/ \E c \in Calls, out \in RegistryOutcomes : DispatchResume(c, out)

Spec == Init /\ [][Next]_vars

NextParallel == \E name \in ToolNames : QueryParallel(name)

SpecParallel == InitParallel /\ [][NextParallel]_vars

\* Several calls on one router, each at its own pace.
NextConcurrent ==
    \/ \E c \in InFlight, it \in SampleItems : BuildToolCall(c, it)
    \/ \E c \in InFlight : BuildResume(c)
    \/ \E c \in InFlight : DispatchBegin(c)
    \/ \E c \in InFlight, out \in RegistryOutcomes : DispatchResume(c, out)

SpecConcurrent == Init /\ [][NextConcurrent]_vars

InitRouter ==
    /\ specs \in RouterConfigs
    /\ InitCalls
    /\ NoTask

\* Every operation of the router, in any order.
NextRouter ==
    \/ SpecsCall
    \/ \E name \in ToolNames : QueryParallel(name)
    \/ \E c \in Calls, it \in SampleItems \cup {[type |-> "Message"]} : BuildToolCall(c, it)
    \/ \E c \in Calls : BuildResume(c)
    \/ \E c \in Calls : DispatchBegin(c)
    \/ \E c \in Calls, out \in RegistryOutcomes : DispatchResume(c, out)

SpecRouter == InitRouter /\ [][NextRouter]_vars

(* ------------------------ CompactTask::run ----------------------------- *)

\* run decides its branch from the provider.
RunDecide ==
    /\ taskPc = "decide"
    /\ remote' = Some(should_use_remote_compact_task(provider))
    /\ trace' = Append(trace, "decide")
    /\ taskPc' = run_next("decide", TRUE)
    /\ UNCHANGED <<provider, input, counters, strategyCalls, strategyResult,
                   events, taskRet, cancelAt>>
    /\ UNCHANGED routerVars

\* run emits the usage counter of its branch; the call returns res.
RunCounter(res) ==
    /\ taskPc = "counter"
    /\ counters' = Append(counters, [emission |-> counter_emission(remote.val),
                                     result |-> res])
    /\ trace' = Append(trace, "counter")
    /\ taskPc' = run_next("counter", res = "ok")
    /\ UNCHANGED <<provider, input, remote, strategyCalls, strategyResult,
                   events, taskRet, cancelAt>>
    /\ UNCHANGED routerVars

\* run calls the strategy of its branch and is suspended in it.
RunStartStrategy ==
    /\ taskPc = "start_strategy"
    /\ strategyCalls' = Append(strategyCalls, strategy_call(remote.val, input))
    /\ trace' = Append(trace, "strategy_start")
    /\ taskPc' = run_next("start_strategy", TRUE)
    /\ UNCHANGED <<provider, input, remote, counters, strategyResult,
                   events, taskRet, cancelAt>>
    /\ UNCHANGED routerVars

\* The strategy returns res and run resumes.
RunStrategyReturns(res) ==
    /\ taskPc = "in_strategy"
    /\ strategyResult' = Some(res)
    /\ trace' = Append(trace, "strategy_end")
    /\ taskPc' = run_next("in_strategy", res.ok)
    /\ UNCHANGED <<provider, input, remote, counters, strategyCalls,
                   events, taskRet, cancelAt>>
    /\ UNCHANGED routerVars

\* run sends the error event of the failed strategy on the session.
RunSendEvent ==
    /\ taskPc = "send_event"
    /\ events' = Append(events, error_event(remote.val, strategyResult.val.err))
    /\ trace' = Append(trace, "error_event")
    /\ taskPc' = run_next("send_event", TRUE)
    /\ UNCHANGED <<provider, input, remote, counters, strategyCalls,
                   strategyResult, taskRet, cancelAt>>
    /\ UNCHANGED routerVars

\* run returns None.
RunReturn ==
    /\ taskPc = "return"
    /\ taskRet' = Some(None)
    /\ trace' = Append(trace, "return")
    /\ taskPc' = run_next("return", TRUE)
    /\ UNCHANGED <<provider, input, remote, counters, strategyCalls,
                   strategyResult, events, cancelAt>>
    /\ UNCHANGED routerVars

\* The session cancels the token given to run; run never reads it.
Cancel ==
    /\ cancelAt = "never"
    /\ taskPc \notin {"unspawned", "done"}
    /\ cancelAt' = taskPc
    /\ UNCHANGED <<taskPc, provider, input, remote, counters, strategyCalls,
                   strategyResult, events, taskRet, trace>>
    /\ UNCHANGED routerVars

NextCompact ==
    \/ RunDecide
    \/ \E res \in CounterResults : RunCounter(res)
    \/ RunStartStrategy
    \/ \E res \in StrategyResults : RunStrategyReturns(res)
    \/ RunSendEvent
    \/ RunReturn
    \/ Cancel

SpecCompact == InitCompact /\ [][NextCompact]_vars

(* ------------------------------ claims -------------------------------- *)

\* Slot c has returned from dispatch_tool_call.
Dispatched(c) == pc[c] = "done"

\* Slot c has returned from build_tool_call.
BuildReturned(c) == pc[c] \in {"built", "awaiting", "done"}

\* The ToolCall slot c dispatched.
CallOf(c) == built[c].val.val

\* The registry answered slot c with an error that is not Fatal.
RecoverableOutcome(c) ==
    Dispatched(c) /\ ~outcome[c].ok /\ outcome[c].err.kind # "Fatal"

\* A failure-shaped output item: a custom-tool output, or a function-call
\* output whose success flag is Some(false).
FailureShaped(r) ==
    \/ r.type = "CustomToolCallOutput"
    \/ r.type = "FunctionCallOutput" /\ r.output.success = Some(FALSE)

\* C1: for every dispatched call whose registry outcome is an error other than
\* Fatal, dispatch_tool_call returns Ok carrying a failure-shaped output item.
C1_RecoverableBecomesOk ==
    \A c \in Calls :
        RecoverableOutcome(c) => ret[c].ok /\ FailureShaped(ret[c].val)

C1_Witness ==
    \E c \in Calls :
        /\ RecoverableOutcome(c)
        /\ outcome[c].err.kind = "MissingLocalShellCallId"
        /\ ret[c].ok

\* C2: when the registry returns Fatal(m), dispatch_tool_call returns
\* Err(Fatal(m)) with the same message, for every payload variant; no output
\* item is produced.
C2_FatalPropagates ==
    \A c \in Calls :
        (Dispatched(c) /\ ~outcome[c].ok /\ outcome[c].err.kind = "Fatal")
            => ret[c] = Err(Fatal(outcome[c].err.message))

C2_Witness ==
    \E c \in Calls :
        /\ Dispatched(c)
        /\ CallOf(c).payload.type = "Custom"
        /\ outcome[c] = Err(Fatal("denied"))
        /\ ~ret[c].ok

\* The spec's class of fatal errors (its error taxonomy): the registry's Fatal
\* dispatch error, and the missing correlation id of a legacy shell call,
\* "fatal by construction, because no result could ever be routed back".
FatalClass(c, err) ==
    \/ err.kind = "Fatal"
    \/ /\ err = MissingLocalShellCallId
       /\ item[c].type = "LocalShellCall"
       /\ ~item[c].call_id.some /\ ~item[c].id.some

\* C3: whenever build_tool_call or dispatch_tool_call returns Err, the error is
\* of the fatal class: build_tool_call fails only with the missing correlation
\* id of a local-shell item that has neither call_id nor id, and
\* dispatch_tool_call fails only with the Fatal error the registry returned.
\* Every other registry failure is converted to a value: dispatch_tool_call
\* returns Ok with a failure-shaped item.
C3_OnlyFatalClassUnwinds ==
    \A c \in Calls :
        /\ (BuildReturned(c) /\ ~built[c].ok)
              => /\ FatalClass(c, built[c].err)
                 /\ built[c].err = MissingLocalShellCallId
        /\ (Dispatched(c) /\ ~ret[c].ok)
              => /\ FatalClass(c, ret[c].err)
                 /\ ret[c].err.kind = "Fatal"
                 /\ outcome[c] = ret[c]
        /\ (Dispatched(c) /\ ~outcome[c].ok /\ outcome[c].err.kind # "Fatal")
              => ret[c].ok /\ FailureShaped(ret[c].val)

C3_Witness ==
    \E c \in Calls :
        /\ pc[c] = "built"
        /\ ~built[c].ok
        /\ built[c].err.kind = "MissingLocalShellCallId"

\* C4: the failure item for a recoverable registry error has the shape of the
\* dispatched payload: CustomToolCallOutput{call_id, output = error text} for a
\* Custom payload, FunctionCallOutput{call_id, body = Text(error text),
\* success = Some(false)} for Function, Mcp and LocalShell, whatever the error.
C4_FailureShapeFollowsPayload ==
    \A c \in Calls :
        RecoverableOutcome(c) =>
            LET text == IF outcome[c].err.kind = "MissingLocalShellCallId"
                        THEN "LocalShellCall without call_id or id"
                        ELSE outcome[c].err.message
            IN  IF CallOf(c).payload.type = "Custom"
                THEN ret[c] = Ok([type |-> "CustomToolCallOutput",
                                  call_id |-> CallOf(c).call_id,
                                  output |-> text])
                ELSE /\ CallOf(c).payload.type \in {"Function", "Mcp", "LocalShell"}
                     /\ ret[c] = Ok([type |-> "FunctionCallOutput",
                                     call_id |-> CallOf(c).call_id,
                                     output |-> [body |-> [type |-> "Text", text |-> text],
                                                 success |-> Some(FALSE)]])

C4_Witness ==
    \E c \in Calls :
        /\ RecoverableOutcome(c)
        /\ CallOf(c).payload.type = "Custom"
        /\ ret[c].ok
        /\ ret[c].val.type = "CustomToolCallOutput"

\* The id build_tool_call takes from the originating response item.
ItemCallId(it) ==
    IF it.type = "LocalShellCall"
    THEN (IF it.call_id.some THEN it.call_id.val ELSE it.id.val)
    ELSE it.call_id

\* C5: the call_id handed to the registry and the call_id of any failure item
\* equal the ToolCall's call_id, which equals the id of the originating item.
C5_CallIdPreserved ==
    \A c \in Calls :
        /\ (BuildReturned(c) /\ built[c].ok /\ built[c].val.some)
              => CallOf(c).call_id = ItemCallId(item[c])
        /\ pc[c] \in {"awaiting", "done"}
              => \A i \in 1..Len(registryLog[c]) :
                     registryLog[c][i].call_id = CallOf(c).call_id
        /\ RecoverableOutcome(c) => ret[c].val.call_id = CallOf(c).call_id

C5_Witness ==
    \E c \in Calls :
        /\ RecoverableOutcome(c)
        /\ item[c].type = "LocalShellCall"
        /\ ~item[c].call_id.some
        /\ Len(registryLog[c]) = 1
        /\ ret[c].val.call_id = item[c].id.val

\* C6: when the registry returns Ok(response), dispatch_tool_call returns Ok of
\* exactly that response, for every payload variant.
C6_SuccessPassesThrough ==
    \A c \in Calls :
        (Dispatched(c) /\ outcome[c].ok) => ret[c] = Ok(outcome[c].val)

C6_Witness ==
    \E c \in Calls :
        /\ Dispatched(c)
        /\ outcome[c].ok
        /\ outcome[c].val.call_id # CallOf(c).call_id
        /\ (outcome[c].val.type = "CustomToolCallOutput")
              # (CallOf(c).payload.type = "Custom")

\* Some entry of the spec list configures name with parallel support.
ConfiguredParallel(name) ==
    \E i \in 1..Len(specs) :
        specs[i].spec.name = name /\ specs[i].supports_parallel_tool_calls = TRUE

\* C7: if any shell alias is configured with parallel support, the answer to
\* tool_supports_parallel is true for every alias, so all five aliases agree.
C7_AliasClosure ==
    /\ (query.some /\ query.val.name \in SHELL_TOOL_ALIASES
          /\ \E a \in SHELL_TOOL_ALIASES : ConfiguredParallel(a))
        => query.val.result = TRUE
    /\ \A a, b \in SHELL_TOOL_ALIASES :
          tool_supports_parallel(specs, a) = tool_supports_parallel(specs, b)

C7_Witness ==
    /\ query.some
    /\ query.val.name = "container.exec"
    /\ ~ConfiguredParallel("container.exec")
    /\ ConfiguredParallel("exec_command")
    /\ query.val.result = TRUE

\* C8: for a name outside the alias set the answer is that tool's own
\* configured flag (false when the name is not configured), whatever the flags
\* of the other configured tools.
C8_NonAliasOwnFlag ==
    (query.some /\ query.val.name \notin SHELL_TOOL_ALIASES)
        => query.val.result = ConfiguredParallel(query.val.name)

C8_Witness ==
    /\ query.some
    /\ query.val.name = "view_image"
    /\ ~ConfiguredParallel("view_image")
    /\ ConfiguredParallel("shell")
    /\ ConfiguredParallel("apply_patch")
    /\ query.val.result = FALSE

\* C9: build_tool_call on a local-shell item fails with MissingLocalShellCallId
\* exactly when call_id and id are both absent; otherwise it succeeds with a
\* ToolCall whose call_id is the item's call_id if present, else the item's id.
C9_LocalShellCallId ==
    \A c \in Calls :
        (BuildReturned(c) /\ item[c].type = "LocalShellCall") =>
            IF ~item[c].call_id.some /\ ~item[c].id.some
            THEN built[c] = Err(MissingLocalShellCallId)
            ELSE /\ built[c].ok
                 /\ built[c].val.some
                 /\ built[c].val.val.call_id =
                       (IF item[c].call_id.some THEN item[c].call_id.val
                                                ELSE item[c].id.val)

C9_Witness ==
    \E c \in Calls :
        /\ pc[c] = "built"
        /\ item[c].type = "LocalShellCall"
        /\ item[c].call_id = Some("call_2")
        /\ item[c].id = Some("call_1")
        /\ built[c].ok
        /\ built[c].val.val.call_id = "call_2"

\* C10: build_tool_call on a function-call item yields Ok(Some(call)) with
\* tool_name the item's name and the item's arguments unmodified: an Mcp
\* payload with the resolved server and tool when the session's lookup
\* resolves the name, a Function payload when it does not.
C10_FunctionCallPayload ==
    \A c \in Calls :
        (BuildReturned(c) /\ item[c].type = "FunctionCall") =>
            /\ Len(mcpLog[c]) = 1
            /\ mcpLog[c][1].name = item[c].name
            /\ built[c].ok
            /\ built[c].val.some
            /\ built[c].val.val.tool_name = item[c].name
            /\ built[c].val.val.payload =
                  (IF mcpLog[c][1].result.some
                   THEN [type |-> "Mcp",
                         server |-> mcpLog[c][1].result.val.server,
                         tool |-> mcpLog[c][1].result.val.tool,
                         raw_arguments |-> item[c].arguments]
                   ELSE [type |-> "Function", arguments |-> item[c].arguments])

C10_Witness ==
    \E c \in Calls :
        /\ pc[c] = "built"
        /\ item[c].type = "FunctionCall"
        /\ mcpLog[c][1].result = Some([server |-> "srv", tool |-> "echo"])
        /\ built[c].val.val.payload.type = "Mcp"
        /\ built[c].val.val.payload.raw_arguments = item[c].arguments

(* ------------------------ claims: CompactTask -------------------------- *)

\* run has called its strategy.
StrategyStarted == taskPc \in {"in_strategy", "send_event", "return", "done"}

\* The strategy has returned a failure.
StrategyFailed == strategyResult.some /\ ~strategyResult.val.ok

\* The strategy has returned success.
StrategySucceeded == strategyResult.some /\ strategyResult.val.ok

\* C11: one branch decision per run: a remote-capable provider gets exactly one
\* counter increment tagged "remote" and the remote strategy without the user
\* input; any other provider gets exactly one increment tagged "local" and the
\* local strategy with the original input. The other strategy is not invoked.
C11_OneBranchPerRun ==
    /\ Len(counters) <= 1
    /\ Len(strategyCalls) <= 1
    /\ StrategyStarted =>
          /\ Len(counters) = 1
          /\ counters[1].emission =
                [name |-> "codex.task.compact", inc |-> 1,
                 type |-> IF provider.remote_compact THEN "remote" ELSE "local"]
          /\ strategyCalls =
                IF provider.remote_compact
                THEN << [strategy |-> "run_remote_compact_task", input |-> None] >>
                ELSE << [strategy |-> "run_compact_task", input |-> Some(input)] >>

C11_Witness ==
    /\ taskPc = "done"
    /\ provider.remote_compact
    /\ input = <<"compact", "now">>
    /\ counters[1].emission.type = "remote"
    /\ strategyCalls[1].input = None

\* C12: a failure of the chosen strategy yields exactly one error event on the
\* session, whose message names the branch that failed, and run still returns
\* None.
C12_FailureBecomesOneEvent ==
    /\ Len(events) <= 1
    /\ (taskPc = "done" /\ StrategyFailed) =>
          /\ events =
                << [type |-> "Error",
                    message |-> IF provider.remote_compact
                                THEN "Error running remote compact task"
                                ELSE "Error running local compact task",
                    error |-> strategyResult.val.err] >>
          /\ taskRet = Some(None)

C12_Witness ==
    /\ taskPc = "done"
    /\ ~provider.remote_compact
    /\ strategyResult = Some(Err("Stream"))
    /\ Len(events) = 1
    /\ events[1].message = "Error running local compact task"
    /\ taskRet = Some(None)

\* C13: when the token is cancelled while run is suspended in its strategy, run
\* returns None without waiting for the strategy's result and sends no event.
C13_CancellationObserved ==
    (cancelAt = "in_strategy" /\ taskPc = "done") =>
        /\ ~strategyResult.some
        /\ events = <<>>
        /\ taskRet = Some(None)

\* C14: a failed counter emission changes nothing: the strategy still runs and
\* the events and the return value are those the strategy's result alone gives.
C14_CounterFailureIgnored ==
    (taskPc = "done" /\ Len(counters) = 1 /\ counters[1].result = "err") =>
        /\ Len(strategyCalls) = 1
        /\ strategyResult.some
        /\ Len(events) = (IF strategyResult.val.ok THEN 0 ELSE 1)
        /\ \A i \in 1..Len(events) : events[i].error = strategyResult.val.err
        /\ taskRet = Some(None)

C14_Witness ==
    /\ taskPc = "done"
    /\ counters[1].result = "err"
    /\ Len(strategyCalls) = 1
    /\ StrategyFailed
    /\ Len(events) = 1

\* Sequence p is a prefix of sequence q.
IsPrefix(p, q) ==
    Len(p) <= Len(q) /\ \A i \in 1..Len(p) : p[i] = q[i]

\* The steps of a whole run whose strategy failed, or did not.
StepsOfRun(failed) ==
    <<"decide", "counter", "strategy_start", "strategy_end">>
        \o (IF failed THEN <<"error_event">> ELSE <<>>) \o <<"return">>

\* C19: the steps of every run occur in the order branch decision, counter
\* emission, strategy start, strategy end, optional error event, return; the
\* counter precedes the strategy start, and an error event is sent only after
\* the strategy has returned a failure.
C19_StepOrder ==
    /\ IsPrefix(trace, StepsOfRun(TRUE)) \/ IsPrefix(trace, StepsOfRun(FALSE))
    /\ strategyResult.some => IsPrefix(trace, StepsOfRun(StrategyFailed))
    /\ taskPc = "done" => trace = StepsOfRun(StrategyFailed)
    /\ Len(strategyCalls) > 0 => Len(counters) = 1
    /\ Len(events) > 0 => StrategyFailed

C19_Witness ==
    /\ taskPc = "done"
    /\ StrategyFailed
    /\ trace = <<"decide", "counter", "strategy_start", "strategy_end",
                 "error_event", "return">>

\* C20: when the strategy succeeds run sends no event and returns None, in
\* either branch; a finished run has sent 1 event if the strategy failed and
\* 0 otherwise.
C20_EventsOnlyOnFailure ==
    /\ StrategySucceeded => events = <<>>
    /\ taskPc = "done" =>
          /\ Len(events) = (IF StrategyFailed THEN 1 ELSE 0)
          /\ taskRet = Some(None)

C20_Witness ==
    /\ taskPc = "done"
    /\ StrategySucceeded
    /\ ~provider.remote_compact
    /\ events = <<>>
    /\ taskRet = Some(None)

(* ---------------------- claims: router, continued ---------------------- *)

\* C15: the router is immutable after construction: no specs, policy query,
\* build or dispatch step changes the configured spec list, so specs() returns
\* the configured specifications in construction order and
\* tool_supports_parallel keeps its answer for every name.
C15_RouterImmutable ==
    /\ [][ /\ specs' = specs
           /\ \A n \in ToolNames :
                 tool_supports_parallel(specs', n) = tool_supports_parallel(specs, n)
           /\ (advertised.some /\ advertised' = advertised)
                 => advertised'.val = [i \in 1..Len(specs') |-> specs'[i].spec]
           /\ (query.some /\ query' = query)
                 => query'.val.result = tool_supports_parallel(specs', query'.val.name)
         ]_vars
    /\ [](advertised.some =>
             /\ Len(advertised.val) = Len(specs)
             /\ \A i \in 1..Len(specs) : advertised.val[i] = specs[i].spec)

C15_Witness ==
    /\ specs = DefaultSpecs
    /\ advertised = Some(<<[name |-> "shell"], [name |-> "apply_patch"]>>)
    /\ query.some
    /\ query.val.name = "exec_command"
    /\ query.val.result = TRUE
    /\ \E c \in Calls : pc[c] = "done" /\ ~outcome[c].ok

\* What dispatch_tool_call owes a call on a registry outcome, from that call
\* and that outcome alone.
OwnResult(call, out) ==
    IF out.ok THEN out
    ELSE IF out.err.kind = "Fatal" THEN out
    ELSE LET text == IF out.err.kind = "MissingLocalShellCallId"
                     THEN "LocalShellCall without call_id or id"
                     ELSE out.err.message
         IN  IF call.payload.type = "Custom"
             THEN Ok([type |-> "CustomToolCallOutput", call_id |-> call.call_id,
                      output |-> text])
             ELSE Ok([type |-> "FunctionCallOutput", call_id |-> call.call_id,
                      output |-> [body |-> [type |-> "Text", text |-> text],
                                  success |-> Some(FALSE)]])

\* C16: in any interleaving of several dispatch_tool_call invocations in flight
\* on one router, each invocation's result depends only on its own call and its
\* own registry outcome: a failure item carries that invocation's call_id and
\* the shape of its payload, never those of another call in flight.
C16_ConcurrentDispatchIsolated ==
    \A c \in InFlight :
        /\ pc[c] \in {"awaiting", "done"} =>
              /\ frame[c].failure_call_id = CallOf(c).call_id
              /\ frame[c].payload_outputs_custom = (CallOf(c).payload.type = "Custom")
        /\ pc[c] = "done" => ret[c] = OwnResult(CallOf(c), outcome[c])

C16_Witness ==
    \E c \in InFlight : \E d \in overlap[c] :
        /\ RecoverableOutcome(c)
        /\ CallOf(c).call_id # CallOf(d).call_id
        /\ CallOf(c).payload.type = "Custom"
        /\ CallOf(d).payload.type = "Function"
        /\ ret[c].val.type = "CustomToolCallOutput"
        /\ ret[c].val.call_id = CallOf(c).call_id

\* C17: build_tool_call on an item that is no function call, custom tool call
\* or local-shell call returns Ok(None), without consulting the MCP lookup.
C17_OtherItemsAreNoToolCall ==
    \A c \in Calls :
        (pc[c] # "idle"
           /\ item[c].type \notin {"FunctionCall", "CustomToolCall", "LocalShellCall"})
        => /\ BuildReturned(c)
           /\ built[c] = Ok(None)
           /\ mcpLog[c] = <<>>

C17_Witness ==
    \E c \in Calls :
        /\ pc[c] = "built"
        /\ item[c].type = "Reasoning"
        /\ built[c] = Ok(None)

\* C18: every dispatch_tool_call invokes the registry exactly once, with the
\* tool_name, call_id and payload of its ToolCall, whatever the outcome: there
\* is no second invocation after a recoverable or a fatal error.
C18_DispatchedExactlyOnce ==
    \A c \in Calls :
        /\ pc[c] \in {"idle", "lookup", "built"} => registryLog[c] = <<>>
        /\ pc[c] \in {"awaiting", "done"} =>
              registryLog[c] = << [call_id |-> CallOf(c).call_id,
                                   tool_name |-> CallOf(c).tool_name,
                                   payload |-> CallOf(c).payload] >>

C18_Witness ==
    \E c \in Calls :
        /\ RecoverableOutcome(c)
        /\ CallOf(c).payload.type = "LocalShell"
        /\ Len(registryLog[c]) = 1
        /\ registryLog[c][1].tool_name = "local_shell"

====
